---------------------------- MODULE Spec2Model ----------------------------
(***************************************************************************)
(* State-machine model of the ai-engine service of the website builder.    *)
(*                                                                         *)
(* Six components of the service are modelled, each with a specification   *)
(* of its own (the other components' variables stay at their initial       *)
(* values):                                                                *)
(*                                                                         *)
(*   Spec / LiveSpec   BaseWorkflow.run, _execute_with_retry and the graph *)
(*                     of WebsiteGenerationWorkflow with its four agents   *)
(*                     (workflows/base.py, workflows/website_generation.py,*)
(*                     workflows/agents/*.py)                              *)
(*   GenSpec           the two in-memory job stores, their endpoints and   *)
(*                     their background tasks (api/generation.py,          *)
(*                     api/content.py)                                     *)
(*   DownloadSpec      ModelManager: the download queue and its tasks      *)
(*   BestModelSpec     ModelManager: get_best_model, health and recovery   *)
(*                     (services/model_manager.py, config/models.py)       *)
(*   ProgressSpec      the methods of WorkflowState that write progress,   *)
(*                     called with any argument (workflows/base.py)        *)
(*   HealthSpec        OllamaClient.health_check and its cache             *)
(*                     (services/ollama_client.py)                         *)
(*                                                                         *)
(* Modelling conventions.                                                  *)
(*  - The service runs on one asyncio event loop: code between two awaits  *)
(*    that really suspend is one atomic action.                            *)
(*  - Calls that leave the repository (the LLM, the LangGraph runtime, the *)
(*    backend) are inputs: each such call returns or raises.               *)
(*  - Some members used by the code are defined nowhere in the sources     *)
(*    (self.logger of the workflow and of the agents,                      *)
(*    SEOOptimizer._optimize_about_seo, ModelManager.get_model_for_task,   *)
(*    ModelManager.ensure_model_available, the model_settings field of     *)
(*    AdvancedGenerationRequest, ...).  A use of such a member is modelled *)
(*    as a call that may succeed or raise, so the behaviour of the sources *)
(*    as they stand (AttributeError) is one of the modelled outcomes.      *)
(***************************************************************************)
EXTENDS Integers, Sequences, FiniteSets, TLC

(***************************************************************************)
(* Bounds of the model                                                     *)
(***************************************************************************)
\* largest value of WorkflowState.max_retries that is explored
MaxRetriesLimit == 3
\* number of generation ids uuid4 hands out (both job stores together)
MaxGenerations == 2
\* largest number of pages of a content generation request
MaxPages == 2
\* largest error_count of a model status that is explored
MaxErrors == 2
\* how far below 0 and above 100 a requested progress value may lie
MaxOvershoot == 3
\* largest max_retries explored where only the waits between retries matter
MaxWaits == 6
\* number of whole days the clock of the Ollama client may advance
MaxDays == 1
\* largest second of a day at which the clock is observed
MaxSecondsOfDay == 60

(***************************************************************************)
(* Program constants                                                       *)
(***************************************************************************)
\* WorkflowState.max_retries default (base.py:65)
DefaultMaxRetries == 3
\* asyncio.sleep(min(wait_time, 30)) (base.py:287)
MaxBackoff == 30
\* ModelManager.max_concurrent_downloads (model_manager.py:98)
max_concurrent_downloads == 2
\* ModelManager.max_recovery_attempts (model_manager.py:102)
max_recovery_attempts == 3
\* _is_model_healthy: if status.error_count > 5 (model_manager.py:347)
HealthyErrorLimit == 5
\* health_check: (...).seconds < 30 (ollama_client.py:297)
CacheSeconds == 30
\* timedelta.seconds is the part of the difference below one day, i.e.
\* below 86400 seconds (ollama_client.py:297)
SecondsPerDay == 86400

VARIABLES
    \* ---- workflow (BaseWorkflow / WebsiteGenerationWorkflow) ----
    state,          \* the WorkflowState object (self.state)
    pc,             \* position of BaseWorkflow.run
    node,           \* next node of the compiled graph inside graph.ainvoke
    executed,       \* nodes executed by the current graph.ainvoke, in order
    answers,        \* edge-function answers of the current graph.ainvoke
    invocations,    \* number of graph.ainvoke calls made by this run
    slept,          \* durations passed to asyncio.sleep by this run, in order
    progress_log,   \* state.progress before the last action, then the values it assigned
    skip_on_errors, \* WebsiteGenerationWorkflow.skip_on_errors (config)
    agent_logger,   \* TRUE iff the agent objects have a logger attribute
    \* ---- job stores (api/generation.py, api/content.py) ----
    issued,                     \* number of ids uuid.uuid4() has returned
    advanced_generation_store,  \* generation.py: key -> generation record
    generation_store,           \* content.py: key -> generation record
    adv_task,                   \* id -> the process_advanced_generation task
    content_task,               \* id -> the process_content_generation task
    cancelled,                  \* ids for which cancel_generation succeeded
    \* ---- ModelManager (services/model_manager.py) ----
    model_statuses,      \* self.model_statuses: model -> ModelStatus
    recovery_attempts,   \* self.recovery_attempts: model -> count
    download_queue,      \* self.download_queue
    downloading_models,  \* self.downloading_models
    download_task,       \* model -> position of _download_model_with_tracking
    best_call,           \* the get_best_model call in progress, if any
    \* ---- WorkflowState methods called with any argument ----
    progress_call,       \* the last call made on the state object, if any
    \* ---- OllamaClient.health_check (services/ollama_client.py) ----
    clock,               \* datetime.now(), in seconds since the client was made
    _health_status,      \* self._health_status
    _last_health_check,  \* self._last_health_check: <<time>>, or <<>> for None
    health_call          \* the health_check call in progress or the last one

wfVars == <<state, pc, node, executed, answers, invocations, slept,
            progress_log, skip_on_errors, agent_logger>>

genVars == <<issued, advanced_generation_store, generation_store,
             adv_task, content_task, cancelled>>

mmVars == <<model_statuses, recovery_attempts, download_queue,
            downloading_models, download_task, best_call>>

pgVars == <<progress_call>>

ocVars == <<clock, _health_status, _last_health_check, health_call>>

vars == <<wfVars, genVars, mmVars, pgVars, ocVars>>

(***************************************************************************)
(* Helpers                                                                 *)
(***************************************************************************)
Min(a, b) == IF a < b THEN a ELSE b
Max(a, b) == IF a > b THEN a ELSE b

RECURSIVE Pow2(_)
Pow2(n) == IF n = 0 THEN 1 ELSE 2 * Pow2(n - 1)

Last(s) == s[Len(s)]

(***************************************************************************)
(* workflows/base.py : WorkflowStatus, WorkflowState                       *)
(***************************************************************************)
WorkflowStatus == {"pending", "running", "completed", "failed",
                   "cancelled", "paused"}

AgentNames == {"RequirementsAnalyzer", "ContentGenerator",
               "SEOOptimizer", "StructurePlanner"}

\* state.metadata: each field tells whether the key holds a non-empty value
EmptyMetadata ==
    [content_strategy |-> FALSE, strategy_keywords |-> FALSE,
     strategy_goals |-> FALSE, seo_optimization |-> FALSE,
     site_structure |-> FALSE, navigation |-> FALSE,
     final_output |-> FALSE, partial_output |-> FALSE]

\* wizard payloads: which of the keys read by the agents hold a value;
\* malformed = businessInfo is not a mapping, so validate_inputs raises
WizardPayloads ==
    { [malformed |-> FALSE, name |-> TRUE, category |-> TRUE, purpose |-> TRUE,
       websiteStructure |-> TRUE, selectedServices |-> TRUE, blog |-> TRUE],
      [malformed |-> FALSE, name |-> TRUE, category |-> TRUE, purpose |-> TRUE,
       websiteStructure |-> FALSE, selectedServices |-> FALSE, blog |-> FALSE],
      [malformed |-> FALSE, name |-> FALSE, category |-> TRUE, purpose |-> FALSE,
       websiteStructure |-> TRUE, selectedServices |-> FALSE, blog |-> FALSE],
      [malformed |-> TRUE, name |-> FALSE, category |-> FALSE, purpose |-> FALSE,
       websiteStructure |-> FALSE, selectedServices |-> FALSE, blog |-> FALSE] }

\* WorkflowState(project_id, user_id, wizard_data=w, max_retries=m)
NewWorkflowState(w, m) ==
    [wizard_data |-> w,
     generated_content |-> {},
     current_step |-> "",
     progress |-> 0,
     status |-> "pending",
     errors |-> <<>>,
     warnings |-> 0,
     metadata |-> EmptyMetadata,
     completed_at |-> FALSE,
     agent_results |-> [a \in AgentNames |-> "none"],
     retry_count |-> 0,
     max_retries |-> m]

\* update_progress that stores the requested value as it is
update_progress_unclamped(s, step, progress, status) ==
    LET s1 == [s EXCEPT !.current_step = step, !.progress = progress]
        s2 == IF status # "none" THEN [s1 EXCEPT !.status = status] ELSE s1
    IN  IF status = "completed"
        THEN [s2 EXCEPT !.completed_at = TRUE, !.progress = 100]
        ELSE s2

\* WorkflowState.update_progress(step, progress, status)
update_progress(s, step, progress, status) ==
    LET s1 == [s EXCEPT !.current_step = step,
                        !.progress = Min(100, Max(0, progress))]
        s2 == IF status # "none" THEN [s1 EXCEPT !.status = status] ELSE s1
    IN  IF status = "completed"
        THEN [s2 EXCEPT !.completed_at = TRUE, !.progress = 100]
        ELSE s2

\* WorkflowState.add_error(error, step): the message is kept as a short tag
add_error(s, error) == [s EXCEPT !.errors = Append(@, error)]

\* WorkflowState.add_warning(warning, step): only the number of warnings is kept
add_warning(s) == [s EXCEPT !.warnings = @ + 1]

\* can_retry with the comparison off by one
can_retry_inclusive(s) == s.retry_count <= s.max_retries

\* WorkflowState.can_retry
can_retry(s) == s.retry_count < s.max_retries

\* WorkflowState.increment_retry
increment_retry(s) == [s EXCEPT !.retry_count = @ + 1]

\* reset_for_retry that also drops what the failed attempt produced
reset_for_retry_clears_results(s) ==
    [s EXCEPT !.errors = <<>>, !.status = "pending",
              !.progress = 0, !.current_step = "",
              !.metadata = EmptyMetadata, !.generated_content = {}]

\* WorkflowState.reset_for_retry
reset_for_retry(s) ==
    [s EXCEPT !.errors = <<>>, !.status = "pending",
              !.progress = 0, !.current_step = ""]

\* WorkflowState.set_agent_result(agent_name, {"success": ok, ...})
set_agent_result(s, agent, ok) ==
    [s EXCEPT !.agent_results[agent] = IF ok THEN "success" ELSE "failure"]

(***************************************************************************)
(* A series of update_progress calls made by an agent's execute.           *)
(* ups is a sequence of <<step, progress>>; the first n of them are made.  *)
(***************************************************************************)
RECURSIVE ApplyUpdates(_, _, _)
ApplyUpdates(s, ups, n) ==
    IF n = 0 THEN s
    ELSE update_progress(ApplyUpdates(s, ups, n - 1), ups[n][1], ups[n][2], "none")

ProgressValues(ups, n) == [i \in 1..n |-> Min(100, Max(0, ups[i][2]))]

\* an update_progress call (or a validation error) made only if flag holds
When(flag, entry) == IF flag THEN <<entry>> ELSE <<>>

(***************************************************************************)
(* workflows/agents/*.py : validate_inputs of the four agents.             *)
(* Each returns the sequence of validation errors; Raises tells whether    *)
(* the chained .get() on a malformed payload raises instead.               *)
(***************************************************************************)
ValidationRaises(agent, s) ==
    agent \in {"RequirementsAnalyzer", "ContentGenerator"} /\ s.wizard_data.malformed

validate_inputs(agent, s) ==
    CASE agent = "RequirementsAnalyzer" ->
           When(~s.wizard_data.name, "Business name is required for analysis")
           \o When(~s.wizard_data.category, "Website type is required for analysis")
           \o When(~s.wizard_data.purpose, "Website purpose is required for analysis")
      [] agent = "ContentGenerator" ->
           When(~s.wizard_data.name, "Business name is required for content generation")
           \o When(~s.metadata.content_strategy,
                   "Content strategy is required for content generation")
      [] agent = "SEOOptimizer" ->
           When(s.generated_content = {},
                "Generated content is required for SEO optimization")
           \o When(~(s.metadata.content_strategy /\ s.metadata.strategy_keywords),
                   "SEO keywords from content strategy are required")
      [] agent = "StructurePlanner" ->
           When(~s.wizard_data.websiteStructure,
                "Website structure information is required")
           \o When(s.generated_content = {},
                   "Generated content is required for structure planning")

\* for error in validation_errors: state.add_error(error, self.agent_name)
AddErrors(s, errs) == [s EXCEPT !.errors = @ \o errs]

(***************************************************************************)
(* execute of the four agents.  ups is the series of update_progress calls *)
(* the agent makes before storing its results; fail = 0 means that every   *)
(* LLM call returned, fail = k > 0 that the call made after the k-th       *)
(* update raised.  The result is the new state and the progress values     *)
(* assigned on the way.                                                    *)
(***************************************************************************)
AgentUpdates(agent, s) ==
    CASE agent = "RequirementsAnalyzer" ->
           << <<"Analyzing requirements", 5>> >>
      [] agent = "ContentGenerator" ->
           << <<"Generating website content", 25>>,
              <<"Generating homepage content", 30>>,
              <<"Generating about page content", 40>> >>
           \o When(s.wizard_data.selectedServices, <<"Generating services content", 45>>)
           \o << <<"Generating contact page content", 50>> >>
           \o When(s.wizard_data.blog, <<"Generating blog content", 55>>)
      [] agent = "SEOOptimizer" ->
           << <<"Optimizing content for SEO", 65>> >>
           \o When("homepage" \in s.generated_content, <<"Optimizing homepage SEO", 67>>)
           \o When("about" \in s.generated_content, <<"Optimizing about page SEO", 69>>)
           \o When("services" \in s.generated_content, <<"Optimizing services SEO", 71>>)
           \o When("contact" \in s.generated_content, <<"Optimizing contact page SEO", 73>>)
           \o When("blog_posts" \in s.generated_content, <<"Optimizing blog SEO", 75>>)
           \o << <<"Generating structured data", 77>>,
                 <<"Planning sitemap", 79>>,
                 <<"Creating SEO recommendations", 80>> >>
      [] agent = "StructurePlanner" ->
           << <<"Planning website structure", 85>>,
              <<"Analyzing site architecture", 86>>,
              <<"Designing navigation", 88>>,
              <<"Planning URL structure", 90>>,
              <<"Creating page hierarchy", 92>>,
              <<"Planning footer structure", 94>> >>

\* the update after which the first LLM call of the agent is made
FirstCall(agent) == IF agent = "RequirementsAnalyzer" THEN 1 ELSE 2

\* the explored outcomes: no call fails, the first call fails, the last call fails
FailPoints(agent, s) == {0, FirstCall(agent), Len(AgentUpdates(agent, s))}

FinalUpdate(agent) ==
    CASE agent = "RequirementsAnalyzer" -> <<"Requirements analysis completed", 15>>
      [] agent = "ContentGenerator" -> <<"Content generation completed", 60>>
      [] agent = "SEOOptimizer" -> <<"SEO optimization completed", 82>>
      [] agent = "StructurePlanner" -> <<"Website structure planning completed", 95>>

FailureMessage(agent) ==
    CASE agent = "RequirementsAnalyzer" -> "Requirements analysis failed"
      [] agent = "ContentGenerator" -> "Content generation failed"
      [] agent = "SEOOptimizer" -> "SEO optimization failed"
      [] agent = "StructurePlanner" -> "Structure planning failed"

\* the results the agent stores in the state when all its calls returned;
\* strat = [keywords, goals] says which parts of the strategy the LLM filled
StoreResults(agent, s, strat) ==
    LET w == s.wizard_data
        c == s.generated_content
    IN  CASE agent = "RequirementsAnalyzer" ->
               [s EXCEPT !.metadata.content_strategy = TRUE,
                         !.metadata.strategy_keywords = strat.keywords,
                         !.metadata.strategy_goals = strat.goals]
          [] agent = "ContentGenerator" ->
               [s EXCEPT !.generated_content =
                   {"homepage", "about", "contact"}
                   \cup (IF w.selectedServices THEN {"services"} ELSE {})
                   \cup (IF w.blog THEN {"blog_posts"} ELSE {})]
          [] agent = "SEOOptimizer" ->
               [s EXCEPT !.metadata.seo_optimization =
                   (c \cap {"homepage", "about", "services", "contact", "blog_posts"} # {})]
          [] agent = "StructurePlanner" ->
               [s EXCEPT !.metadata.site_structure = TRUE,
                         !.metadata.navigation = TRUE]

execute(agent, s, fail, strat, hasLogger) ==
    LET ups == AgentUpdates(agent, s)
    IN  IF fail > 0
        THEN [s |-> add_error(ApplyUpdates(s, ups, fail), FailureMessage(agent)),
              log |-> ProgressValues(ups, fail)]
        ELSE LET s1 == StoreResults(agent, ApplyUpdates(s, ups, Len(ups)), strat)
                 fin == FinalUpdate(agent)
                 s2 == update_progress(s1, fin[1], fin[2], "none")
             IN  [s |-> IF hasLogger THEN s2
                        ELSE add_error(s2, FailureMessage(agent)),
                  log |-> ProgressValues(ups, Len(ups)) \o <<fin[2]>>]

\* BaseAgent.safe_execute
safe_execute(agent, s, fail, strat, hasLogger) ==
    IF ValidationRaises(agent, s)
    THEN [s |-> set_agent_result(add_error(s, "Agent failed"), agent, FALSE),
          log |-> <<>>]
    ELSE IF validate_inputs(agent, s) # <<>>
    THEN [s |-> AddErrors(s, validate_inputs(agent, s)), log |-> <<>>]
    ELSE LET r == execute(agent, s, fail, strat, hasLogger)
         IN  [s |-> set_agent_result(r.s, agent, TRUE), log |-> r.log]

(***************************************************************************)
(* workflows/website_generation.py : node wrappers.                        *)
(* Each returns the new state and the progress values assigned on the way. *)
(* The except branch of a wrapper is not modelled: safe_execute catches    *)
(* every Exception of the agent, and nothing else in the try block raises. *)
(***************************************************************************)
_analyze_requirements_node(s, fail, strat, hasLogger) ==
    LET s1 == update_progress(s, "Analyzing requirements", 10, "running")
        r  == safe_execute("RequirementsAnalyzer", s1, fail, strat, hasLogger)
        missing_keys == ~(r.s.metadata.strategy_keywords /\ r.s.metadata.strategy_goals)
    IN  [s |-> IF r.s.metadata.content_strategy /\ missing_keys
               THEN add_warning(r.s) ELSE r.s,
         log |-> <<10>> \o r.log]

_generate_content_node(s, fail, strat, hasLogger) ==
    LET s1 == update_progress(s, "Generating website content", 30, "none")
        r  == safe_execute("ContentGenerator", s1, fail, strat, hasLogger)
    IN  [s |-> IF r.s.generated_content # {} /\ "homepage" \notin r.s.generated_content
               THEN add_warning(r.s) ELSE r.s,
         log |-> <<30>> \o r.log]

_optimize_seo_node(s, fail, strat, hasLogger) ==
    LET s1 == update_progress(s, "Optimizing for SEO", 65, "none")
        r  == safe_execute("SEOOptimizer", s1, fail, strat, hasLogger)
    IN  [s |-> IF r.s.metadata.seo_optimization THEN r.s ELSE add_warning(r.s),
         log |-> <<65>> \o r.log]

_plan_structure_node(s, fail, strat, hasLogger) ==
    LET s1 == update_progress(s, "Planning site structure", 85, "none")
        r  == safe_execute("StructurePlanner", s1, fail, strat, hasLogger)
    IN  [s |-> IF r.s.metadata.site_structure /\ r.s.metadata.navigation
               THEN r.s ELSE add_warning(r.s),
         log |-> <<85>> \o r.log]

\* the completeness test looking at the content section only
MissingSectionsContentOnly(s) == s.generated_content = {}

\* required_sections = ["content", "structure", "navigation"]
MissingSections(s) ==
    s.generated_content = {} \/ ~s.metadata.site_structure \/ ~s.metadata.navigation

_finalize_output_node(s) ==
    LET s1 == update_progress(s, "Finalizing output", 98, "none")
    IN  IF MissingSections(s1)
        THEN [s |-> [add_error(s1, "Missing required sections") EXCEPT !.status = "failed"],
              log |-> <<98>>]
        ELSE [s |-> update_progress([s1 EXCEPT !.metadata.final_output = TRUE],
                                    "Website generation completed", 100, "completed"),
              log |-> <<98, 100>>]

\* state.metadata is a non-empty dict
MetadataNonEmpty(m) ==
    \/ m.content_strategy \/ m.seo_optimization \/ m.site_structure
    \/ m.navigation \/ m.final_output \/ m.partial_output

_handle_error_node(s) ==
    LET s1 == [s EXCEPT !.status = "failed"]
    IN  [s |-> IF s1.generated_content # {} \/ MetadataNonEmpty(s1.metadata)
               THEN [s1 EXCEPT !.metadata.partial_output = TRUE] ELSE s1,
         log |-> <<>>]

(***************************************************************************)
(* workflows/website_generation.py : conditional edge functions.           *)
(* Each returns its answer and the state (two of them record an error).    *)
(***************************************************************************)
_should_continue_after_requirements(s, skip) ==
    IF s.errors # <<>> /\ ~skip THEN [answer |-> "error", s |-> s]
    ELSE IF ~s.metadata.content_strategy
    THEN [answer |-> "error",
          s |-> add_error(s, "Requirements analysis failed to generate content strategy")]
    ELSE [answer |-> "continue", s |-> s]

\* the edge after generate_content without the test of generated_content
_should_continue_after_content_unchecked(s, skip) ==
    IF s.errors # <<>> /\ ~skip THEN [answer |-> "error", s |-> s]
    ELSE [answer |-> "continue", s |-> s]

_should_continue_after_content(s, skip) ==
    IF s.errors # <<>> /\ ~skip THEN [answer |-> "error", s |-> s]
    ELSE IF s.generated_content = {}
    THEN [answer |-> "error",
          s |-> add_error(s, "Content generation failed to produce content")]
    ELSE [answer |-> "continue", s |-> s]

_should_continue_after_seo(s, skip) ==
    IF s.errors # <<>> /\ ~skip THEN [answer |-> "error", s |-> s]
    ELSE [answer |-> "continue", s |-> s]

\* the edge after plan_structure answering "continue" whatever the errors
_should_continue_after_structure_always(s, skip) ==
    [answer |-> "continue", s |-> s]

_should_continue_after_structure(s, skip) ==
    IF s.errors # <<>> /\ ~skip THEN [answer |-> "error", s |-> s]
    ELSE [answer |-> "continue", s |-> s]

(***************************************************************************)
(* WebsiteGenerationWorkflow.setup_graph : the compiled graph              *)
(***************************************************************************)
EntryPoint == "analyze_requirements"

Stages == <<"analyze_requirements", "generate_content", "optimize_seo",
            "plan_structure", "finalize_output">>

GraphNodes == {Stages[i] : i \in 1..Len(Stages)} \cup {"handle_error"}

\* the edge of generate_content wired to plan_structure
SuccessorSkipsSeo(n, answer) ==
    CASE n = "analyze_requirements" ->
           IF answer = "continue" THEN "generate_content" ELSE "handle_error"
      [] n = "generate_content" ->
           IF answer = "continue" THEN "plan_structure" ELSE "handle_error"
      [] n = "optimize_seo" ->
           IF answer = "continue" THEN "plan_structure" ELSE "handle_error"
      [] n = "plan_structure" ->
           IF answer = "continue" THEN "finalize_output" ELSE "handle_error"
      [] n = "finalize_output" -> "END"
      [] n = "handle_error" -> "END"

\* add_conditional_edges / add_edge: the node that follows n on an answer
Successor(n, answer) ==
    CASE n = "analyze_requirements" ->
           IF answer = "continue" THEN "generate_content" ELSE "handle_error"
      [] n = "generate_content" ->
           IF answer = "continue" THEN "optimize_seo" ELSE "handle_error"
      [] n = "optimize_seo" ->
           IF answer = "continue" THEN "plan_structure" ELSE "handle_error"
      [] n = "plan_structure" ->
           IF answer = "continue" THEN "finalize_output" ELSE "handle_error"
      [] n = "finalize_output" -> "END"
      [] n = "handle_error" -> "END"

AgentOf(n) ==
    CASE n = "analyze_requirements" -> "RequirementsAnalyzer"
      [] n = "generate_content" -> "ContentGenerator"
      [] n = "optimize_seo" -> "SEOOptimizer"
      [] n = "plan_structure" -> "StructurePlanner"

\* the parts of the content strategy the LLM may leave empty
Strategies == { [keywords |-> TRUE, goals |-> TRUE],
                [keywords |-> TRUE, goals |-> FALSE],
                [keywords |-> FALSE, goals |-> TRUE] }

NoStrategy == [keywords |-> FALSE, goals |-> FALSE]

(***************************************************************************)
(* Workflow: initial state and actions                                     *)
(***************************************************************************)
WFInit ==
    /\ \E w \in WizardPayloads, m \in 0..MaxRetriesLimit :
           state = NewWorkflowState(w, m)
    /\ pc = "start"
    /\ node = "none"
    /\ executed = <<>>
    /\ answers = <<>>
    /\ invocations = 0
    /\ slept = <<>>
    /\ progress_log = <<0>>
    /\ skip_on_errors \in BOOLEAN
    /\ agent_logger \in BOOLEAN

\* the except branch without the assignment of the FAILED status
RunFailedKeepsStatus(s) == add_error(s, "Workflow execution failed")

\* the except branch of BaseWorkflow.run (base.py:248-260)
RunFailed(s) ==
    [add_error(s, "Workflow execution failed") EXCEPT !.status = "failed"]

\* BaseWorkflow.run up to the call of _execute_with_retry: the status becomes
\* RUNNING and the graph is set up; setup_graph may raise or return no graph
RunStart ==
    /\ pc = "start"
    /\ \E setupOk \in BOOLEAN :
         IF setupOk
         THEN /\ state' = [state EXCEPT !.status = "running"]
              /\ pc' = "invoke"
         ELSE /\ state' = RunFailed([state EXCEPT !.status = "running"])
              /\ pc' = "done"
    /\ UNCHANGED <<node, executed, answers, invocations, slept, progress_log,
                   skip_on_errors, agent_logger>>
    /\ UNCHANGED <<genVars, mmVars, pgVars, ocVars>>

\* _execute_with_retry: result = await self.graph.ainvoke(self.state)
Ainvoke ==
    /\ pc = "invoke"
    /\ pc' = "graph"
    /\ node' = EntryPoint
    /\ executed' = <<>>
    /\ answers' = <<>>
    /\ invocations' = invocations + 1
    /\ UNCHANGED <<state, slept, progress_log, skip_on_errors, agent_logger>>
    /\ UNCHANGED <<genVars, mmVars, pgVars, ocVars>>

\* one of the four agent nodes runs, then its conditional edge is evaluated
AgentNode(n, wrapper(_, _, _, _), edge(_, _)) ==
    /\ pc = "graph"
    /\ node = n
    /\ \E fail \in FailPoints(AgentOf(n), state),
          strat \in (IF n = EntryPoint THEN Strategies ELSE {NoStrategy}) :
         \E r \in {wrapper(state, fail, strat, agent_logger)} :
           \E e \in {edge(r.s, skip_on_errors)} :
             /\ state' = e.s
             /\ progress_log' = <<state.progress>> \o r.log
             /\ answers' = Append(answers, e.answer)
             /\ node' = Successor(n, e.answer)
    /\ executed' = Append(executed, n)
    /\ UNCHANGED <<pc, invocations, slept, skip_on_errors, agent_logger>>
    /\ UNCHANGED <<genVars, mmVars, pgVars, ocVars>>

AnalyzeRequirements ==
    AgentNode("analyze_requirements", _analyze_requirements_node,
              _should_continue_after_requirements)

GenerateContent ==
    AgentNode("generate_content", _generate_content_node,
              _should_continue_after_content)

OptimizeSeo ==
    AgentNode("optimize_seo", _optimize_seo_node, _should_continue_after_seo)

PlanStructure ==
    AgentNode("plan_structure", _plan_structure_node,
              _should_continue_after_structure)

FinalizeOutput ==
    /\ pc = "graph"
    /\ node = "finalize_output"
    /\ LET r == _finalize_output_node(state)
       IN  /\ state' = r.s
           /\ progress_log' = <<state.progress>> \o r.log
    /\ node' = Successor("finalize_output", "none")
    /\ executed' = Append(executed, "finalize_output")
    /\ UNCHANGED <<pc, answers, invocations, slept, skip_on_errors, agent_logger>>
    /\ UNCHANGED <<genVars, mmVars, pgVars, ocVars>>

HandleError ==
    /\ pc = "graph"
    /\ node = "handle_error"
    /\ state' = _handle_error_node(state).s
    /\ node' = Successor("handle_error", "none")
    /\ executed' = Append(executed, "handle_error")
    /\ progress_log' = <<state.progress>>
    /\ UNCHANGED <<pc, answers, invocations, slept, skip_on_errors, agent_logger>>
    /\ UNCHANGED <<genVars, mmVars, pgVars, ocVars>>

\* run marking every returned result COMPLETED
RunTailAlwaysCompleted(s) ==
    update_progress(s, "Workflow completed", 100, "completed")

\* graph.ainvoke returned: _execute_with_retry returns the result and run
\* marks it COMPLETED if it has no errors, FAILED otherwise (base.py:229-246)
RunTail(s) ==
    IF s.errors = <<>>
    THEN update_progress(s, "Workflow completed", 100, "completed")
    ELSE [s EXCEPT !.status = "failed"]

GraphReturn ==
    /\ pc = "graph"
    /\ node = "END"
    /\ state' = RunTail(state)
    /\ progress_log' = IF state.errors = <<>> THEN <<state.progress, 100>>
                       ELSE <<state.progress>>
    /\ pc' = "done"
    /\ UNCHANGED <<node, executed, answers, invocations, slept,
                   skip_on_errors, agent_logger>>
    /\ UNCHANGED <<genVars, mmVars, pgVars, ocVars>>

\* the wait without the cap of 30 seconds
BackoffWaitUncapped(retry_count) == Pow2(retry_count)

\* wait_time = 2 ** retry_count; asyncio.sleep(min(wait_time, 30))
BackoffWait(retry_count) == Min(Pow2(retry_count), MaxBackoff)

\* graph.ainvoke raised (the graph runtime is outside the repository): the
\* except branch of _execute_with_retry (base.py:271-296) either schedules a
\* retry or records "Max retries reached" and re-raises into run's except
RetryOrGiveUp(s) ==
    IF can_retry(s)
    THEN add_warning(increment_retry(s))
    ELSE RunFailed(add_error(s, "Max retries reached"))

GraphRaise ==
    /\ pc = "graph"
    /\ node # "END"
    /\ state' = RetryOrGiveUp(state)
    /\ IF can_retry(state)
       THEN /\ pc' = "backoff"
            /\ slept' = Append(slept, BackoffWait(state'.retry_count))
       ELSE /\ pc' = "done"
            /\ slept' = slept
    /\ UNCHANGED <<node, executed, answers, invocations, progress_log,
                   skip_on_errors, agent_logger>>
    /\ UNCHANGED <<genVars, mmVars, pgVars, ocVars>>

\* the sleep is over: self.state.reset_for_retry(); continue
BackoffDone ==
    /\ pc = "backoff"
    /\ state' = reset_for_retry(state)
    /\ progress_log' = <<0>>
    /\ pc' = "invoke"
    /\ UNCHANGED <<node, executed, answers, invocations, slept,
                   skip_on_errors, agent_logger>>
    /\ UNCHANGED <<genVars, mmVars, pgVars, ocVars>>

\* the steps of run and _execute_with_retry, then the nodes of the graph
WFNext ==
    \/ RunStart
    \/ Ainvoke
    \/ GraphReturn
    \/ GraphRaise
    \/ BackoffDone
    \/ AnalyzeRequirements
    \/ GenerateContent
    \/ OptimizeSeo
    \/ PlanStructure
    \/ FinalizeOutput
    \/ HandleError

(***************************************************************************)
(* api/generation.py : the advanced generation store                      *)
(*                                                                         *)
(* uuid.uuid4() is modelled as a generator that never returns a value      *)
(* twice: the k-th call returns k.  A task's local variable `record` and   *)
(* the store entry are the same dict object; once the entry is deleted,    *)
(* what the task writes to its record is no longer visible in the store.   *)
(***************************************************************************)
GenerationIds == 1..MaxGenerations

\* generation_id = str(uuid.uuid4())
uuid4 == issued + 1

\* the outcomes of a call of ModelManager.get_model_for_task,
\* ensure_model_available or record_model_usage.  ModelManager defines none
\* of them, so with the sources as they stand every call raises; "returns"
\* is what the callers are written to expect
ModelCallOutcomes == {"returns", "raises"}

\* the AdvancedGenerationRequest shapes explored: the defaults, and the
\* opposite of each default
AdvancedRequests ==
    { [include_analytics |-> TRUE, auto_notify_backend |-> TRUE,
       request_hugo_generation |-> FALSE],
      [include_analytics |-> FALSE, auto_notify_backend |-> FALSE,
       request_hugo_generation |-> TRUE] }

NoAdvTask ==
    [pc |-> "none", include_analytics |-> FALSE, auto_notify_backend |-> FALSE,
     request_hugo_generation |-> FALSE]

\* a generation_record whose generation_id field is not the key
NewAdvancedRecordNoId(generation_id) ==
    [generation_id |-> 0,
     status |-> "queued",
     progress |-> 0,
     current_step |-> "None",
     workflow_steps |-> <<>>,
     content |-> FALSE,
     analytics |-> FALSE,
     completed_at |-> FALSE,
     backend_notified |-> FALSE,
     hugo_generation_requested |-> FALSE,
     error |-> "None"]

\* generation_record of start_advanced_generation (generation.py:169-193)
NewAdvancedRecord(generation_id) ==
    [generation_id |-> generation_id,
     status |-> "queued",
     progress |-> 0,
     current_step |-> "None",
     workflow_steps |-> <<>>,
     content |-> FALSE,
     analytics |-> FALSE,
     completed_at |-> FALSE,
     backend_notified |-> FALSE,
     hugo_generation_requested |-> FALSE,
     error |-> "None"]

\* store[key] = record
StoreRecord(store, key, record) ==
    [k \in DOMAIN store \cup {key} |-> IF k = key THEN record ELSE store[k]]

\* del store[key]
DeleteRecord(store, key) == [k \in DOMAIN store \ {key} |-> store[k]]

\* update_workflow_step(generation_id, step_name, status, progress), on the record
update_workflow_step(record, step_name, status, progress) ==
    LET steps == record.workflow_steps
        closed == IF steps # <<>> /\ Last(steps).status = "running"
                  THEN [steps EXCEPT ![Len(steps)].status = "completed"]
                  ELSE steps
    IN  [record EXCEPT
           !.workflow_steps = Append(closed, [step_name |-> step_name, status |-> status]),
           !.current_step = step_name,
           !.progress = progress]

\* complete_workflow_step(generation_id, step_name, output), on the record
complete_workflow_step(record, step_name) ==
    LET steps == record.workflow_steps
    IN  IF steps # <<>> /\ Last(steps).step_name = step_name
        THEN [record EXCEPT !.workflow_steps[Len(steps)].status = "completed"]
        ELSE record

\* process_advanced_generation from "Step 2: Analysis" to the completion of
\* the finalization step (generation.py:421-483): the four step functions
\* return constants without suspending, so this runs without interruption
AdvancedSteps(record, include_analytics) ==
    LET a1 == update_workflow_step(record, "analysis", "running", 15)
        a2 == complete_workflow_step(a1, "analysis")
        g1 == update_workflow_step(a2, "content_generation", "running", 50)
        g2 == complete_workflow_step(g1, "content_generation")
        o1 == update_workflow_step(g2, "optimization", "running", 80)
        o2 == complete_workflow_step(complete_workflow_step(o1, "optimization"),
                                     "optimization")
        n1 == IF include_analytics
              THEN complete_workflow_step(
                     [update_workflow_step(o2, "analytics", "running", 90)
                        EXCEPT !.analytics = TRUE], "analytics")
              ELSE o2
        f1 == update_workflow_step(n1, "finalization", "running", 95)
        f2 == [f1 EXCEPT !.content = TRUE,
                         !.status = "completed",
                         !.completed_at = TRUE,
                         !.progress = 100,
                         !.current_step = "completed"]
    IN  complete_workflow_step(f2, "finalization")

\* the except branch that forgets completed_at
AdvancedFailedNoTime(record, error_msg) ==
    [record EXCEPT !.status = "failed", !.error = error_msg]

\* the except branch of process_advanced_generation (generation.py:501-514)
AdvancedFailed(record, error_msg) ==
    LET steps == record.workflow_steps
        r == [record EXCEPT !.status = "failed",
                            !.error = error_msg,
                            !.completed_at = TRUE]
    IN  IF steps # <<>>
        THEN [r EXCEPT !.workflow_steps[Len(steps)].status = "failed"]
        ELSE r

\* the task entered its except branch with error_msg
AdvancedHandled(store, id, error_msg) ==
    IF id \in DOMAIN store
    THEN [store EXCEPT ![id] = AdvancedFailed(store[id], error_msg)]
    ELSE store

\* start_advanced_generation.  The read of request.model_settings
\* (generation.py:137) raises unless the request object carries that
\* attribute; the project validation changes nothing (its exceptions,
\* the 403 included, are caught and logged).
StartAdvancedGeneration ==
    /\ issued < MaxGenerations
    /\ issued' = uuid4
    /\ \E request \in AdvancedRequests, has_model_settings \in BOOLEAN :
         IF has_model_settings
         THEN /\ advanced_generation_store' =
                   StoreRecord(advanced_generation_store, uuid4,
                               NewAdvancedRecord(uuid4))
              /\ adv_task' = [adv_task EXCEPT ![uuid4] =
                   [pc |-> "scheduled",
                    include_analytics |-> request.include_analytics,
                    auto_notify_backend |-> request.auto_notify_backend,
                    request_hugo_generation |-> request.request_hugo_generation]]
         ELSE UNCHANGED <<advanced_generation_store, adv_task>>
    /\ UNCHANGED <<generation_store, content_task, cancelled>>
    /\ UNCHANGED <<wfVars, mmVars, pgVars, ocVars>>

\* cancel_generation answering success (404 and 400 change nothing)
cancel_generation(generation_id) ==
    /\ generation_id \in DOMAIN advanced_generation_store
    /\ advanced_generation_store[generation_id].status \notin {"completed", "failed"}
    /\ advanced_generation_store' =
         [advanced_generation_store EXCEPT ![generation_id] =
            [@ EXCEPT !.status = "failed",
                      !.completed_at = TRUE,
                      !.error = "Generation cancelled by user"]]
    /\ cancelled' = cancelled \cup {generation_id}
    /\ UNCHANGED <<issued, generation_store, adv_task, content_task>>
    /\ UNCHANGED <<wfVars, mmVars, pgVars, ocVars>>

CancelGeneration == \E generation_id \in GenerationIds : cancel_generation(generation_id)

\* delete_generation of generation.py answering success (404 changes nothing)
delete_generation(generation_id) ==
    /\ generation_id \in DOMAIN advanced_generation_store
    /\ advanced_generation_store' =
         DeleteRecord(advanced_generation_store, generation_id)
    /\ UNCHANGED <<issued, generation_store, adv_task, content_task, cancelled>>
    /\ UNCHANGED <<wfVars, mmVars, pgVars, ocVars>>

DeleteGeneration == \E generation_id \in GenerationIds : delete_generation(generation_id)

\* where the task goes after the record is COMPLETED
AfterCompletion(task) ==
    IF task.auto_notify_backend THEN "notify"
    ELSE IF task.request_hugo_generation THEN "hugo"
    ELSE "returned"

\* process_advanced_generation starts: record = store[id] raises KeyError
\* outside the try block when the record was deleted; otherwise the
\* initialization step is recorded and get_model_for_task is awaited
AdvTaskStart(id) ==
    /\ adv_task[id].pc = "scheduled"
    /\ IF id \in DOMAIN advanced_generation_store
       THEN /\ advanced_generation_store' =
                 [advanced_generation_store EXCEPT ![id] =
                    update_workflow_step(@, "initialization", "initializing", 5)]
            /\ adv_task' = [adv_task EXCEPT ![id].pc = "get_model"]
       ELSE /\ adv_task' = [adv_task EXCEPT ![id].pc = "crashed"]
            /\ UNCHANGED advanced_generation_store
    /\ UNCHANGED <<issued, generation_store, content_task, cancelled>>
    /\ UNCHANGED <<wfVars, mmVars, pgVars, ocVars>>

\* model_manager.get_model_for_task("content_generation") is over
AdvGetModelDone(id) ==
    /\ adv_task[id].pc = "get_model"
    /\ \E outcome \in ModelCallOutcomes :
         IF outcome = "returns"
         THEN /\ adv_task' = [adv_task EXCEPT ![id].pc = "ensure_model"]
              /\ UNCHANGED advanced_generation_store
         ELSE /\ adv_task' = [adv_task EXCEPT ![id].pc = "failed"]
              /\ advanced_generation_store' =
                   AdvancedHandled(advanced_generation_store, id,
                                   "get_model_for_task raised")
    /\ UNCHANGED <<issued, generation_store, content_task, cancelled>>
    /\ UNCHANGED <<wfVars, mmVars, pgVars, ocVars>>

\* model_manager.ensure_model_available(model_name) is over; when it
\* returned, the task runs to the completion of the generation, unless the
\* store lookup of update_workflow_step raises KeyError
AdvEnsureModelDone(id) ==
    /\ adv_task[id].pc = "ensure_model"
    /\ \E outcome \in ModelCallOutcomes :
         IF outcome = "returns" /\ id \in DOMAIN advanced_generation_store
         THEN /\ advanced_generation_store' =
                   [advanced_generation_store EXCEPT ![id] =
                      AdvancedSteps(@, adv_task[id].include_analytics)]
              /\ adv_task' = [adv_task EXCEPT ![id].pc = AfterCompletion(adv_task[id])]
         ELSE /\ adv_task' = [adv_task EXCEPT ![id].pc = "failed"]
              /\ advanced_generation_store' =
                   AdvancedHandled(advanced_generation_store, id,
                                   IF outcome = "returns" THEN "KeyError"
                                   ELSE "ensure_model_available raised")
    /\ UNCHANGED <<issued, generation_store, content_task, cancelled>>
    /\ UNCHANGED <<wfVars, mmVars, pgVars, ocVars>>

\* notify_backend_completion is over (its exceptions are caught)
AdvNotifyDone(id) ==
    /\ adv_task[id].pc = "notify"
    /\ \E notified \in BOOLEAN :
         advanced_generation_store' =
           IF notified /\ id \in DOMAIN advanced_generation_store
           THEN [advanced_generation_store EXCEPT ![id].backend_notified = TRUE]
           ELSE advanced_generation_store
    /\ adv_task' = [adv_task EXCEPT ![id].pc =
                      IF adv_task[id].request_hugo_generation THEN "hugo"
                      ELSE "returned"]
    /\ UNCHANGED <<issued, generation_store, content_task, cancelled>>
    /\ UNCHANGED <<wfVars, mmVars, pgVars, ocVars>>

\* request_hugo_site_generation is over (its exceptions are caught)
AdvHugoDone(id) ==
    /\ adv_task[id].pc = "hugo"
    /\ \E requested \in BOOLEAN :
         advanced_generation_store' =
           IF requested /\ id \in DOMAIN advanced_generation_store
           THEN [advanced_generation_store EXCEPT ![id].hugo_generation_requested = TRUE]
           ELSE advanced_generation_store
    /\ adv_task' = [adv_task EXCEPT ![id].pc = "returned"]
    /\ UNCHANGED <<issued, generation_store, content_task, cancelled>>
    /\ UNCHANGED <<wfVars, mmVars, pgVars, ocVars>>

\* one step of a process_advanced_generation task
ProcessAdvancedGeneration ==
    \E id \in GenerationIds :
        \/ AdvTaskStart(id)
        \/ AdvGetModelDone(id)
        \/ AdvEnsureModelDone(id)
        \/ AdvNotifyDone(id)
        \/ AdvHugoDone(id)

(***************************************************************************)
(* api/content.py : the content generation store                          *)
(***************************************************************************)
\* the ContentGenerationRequest shapes explored: model given or not,
\* project_id given or not, one page or MaxPages pages
ContentRequests ==
    { [model |-> TRUE, project_id |-> FALSE, pages |-> 1],
      [model |-> FALSE, project_id |-> TRUE, pages |-> MaxPages] }

NoContentTask ==
    [pc |-> "none", model |-> FALSE, project_id |-> FALSE, pages |-> 0, i |-> 0]

\* generation_record of generate_content (content.py:198-213)
NewContentRecord(generation_id) ==
    [generation_id |-> generation_id,
     status |-> "queued",
     pages |-> 0,
     model_used |-> FALSE,
     current_step |-> "None",
     progress |-> 0,
     completed_at |-> FALSE,
     error |-> "None"]

\* progress = 10.0 + (i / total_pages) * 80.0
PageProgress(i, total_pages) == 10 + (i * 80) \div total_pages

\* generate_content.  The record is stored before the backend is notified
\* (an await, when the request has a project_id) and before the task is added.
GenerateContentRequest ==
    /\ issued < MaxGenerations
    /\ issued' = uuid4
    /\ \E request \in ContentRequests :
         /\ generation_store' =
              StoreRecord(generation_store, uuid4, NewContentRecord(uuid4))
         /\ content_task' = [content_task EXCEPT ![uuid4] =
              [pc |-> IF request.project_id THEN "notify_started" ELSE "scheduled",
               model |-> request.model,
               project_id |-> request.project_id,
               pages |-> request.pages,
               i |-> 0]]
    /\ UNCHANGED <<advanced_generation_store, adv_task, cancelled>>
    /\ UNCHANGED <<wfVars, mmVars, pgVars, ocVars>>

\* notify_backend_generation_started is over (its exceptions are caught);
\* background_tasks.add_task appends the task and the endpoint answers
ContentTaskAdded(id) ==
    /\ content_task[id].pc = "notify_started"
    /\ content_task' = [content_task EXCEPT ![id].pc = "scheduled"]
    /\ UNCHANGED <<issued, advanced_generation_store, generation_store,
                   adv_task, cancelled>>
    /\ UNCHANGED <<wfVars, mmVars, pgVars, ocVars>>

\* delete_generation of content.py answering success (404 changes nothing)
content_delete_generation(generation_id) ==
    /\ generation_id \in DOMAIN generation_store
    /\ generation_store' = DeleteRecord(generation_store, generation_id)
    /\ UNCHANGED <<issued, advanced_generation_store, adv_task, content_task,
                   cancelled>>
    /\ UNCHANGED <<wfVars, mmVars, pgVars, ocVars>>

ContentDeleteGeneration ==
    \E generation_id \in GenerationIds : content_delete_generation(generation_id)

\* the except branch of process_content_generation (content.py:481-494)
ContentFailed(record, error_msg) ==
    [record EXCEPT !.status = "failed",
                   !.error = error_msg,
                   !.completed_at = TRUE,
                   !.current_step = "Failed"]

\* the task entered its except branch: its store lookups raise KeyError when
\* the record was deleted, which ends the task; otherwise the record is
\* marked failed (record_model_usage and the notification that follow
\* change nothing in the store)
ContentHandled(id, error_msg) ==
    IF id \in DOMAIN generation_store
    THEN /\ generation_store' =
              [generation_store EXCEPT ![id] = ContentFailed(@, error_msg)]
         /\ content_task' = [content_task EXCEPT ![id].pc = "failed"]
    ELSE /\ content_task' = [content_task EXCEPT ![id].pc = "crashed"]
         /\ UNCHANGED generation_store

\* process_content_generation starts
ContentTaskStart(id) ==
    /\ content_task[id].pc = "scheduled"
    /\ IF id \in DOMAIN generation_store
       THEN /\ generation_store' =
                 [generation_store EXCEPT ![id] =
                    [@ EXCEPT !.status = "processing",
                              !.current_step = "Initializing",
                              !.progress = 5]]
            /\ content_task' = [content_task EXCEPT ![id].pc =
                 IF content_task[id].model THEN "ensure_model" ELSE "get_model"]
       ELSE ContentHandled(id, "KeyError")
    /\ UNCHANGED <<issued, advanced_generation_store, adv_task, cancelled>>
    /\ UNCHANGED <<wfVars, mmVars, pgVars, ocVars>>

\* model_manager.get_model_for_task is over; when it raised the fallback
\* model_manager.get_available_models() is awaited
ContentGetModelDone(id) ==
    /\ content_task[id].pc = "get_model"
    /\ \E outcome \in ModelCallOutcomes :
         content_task' = [content_task EXCEPT ![id].pc =
            IF outcome = "returns" THEN "ensure_model" ELSE "get_available"]
    /\ UNCHANGED <<issued, advanced_generation_store, generation_store,
                   adv_task, cancelled>>
    /\ UNCHANGED <<wfVars, mmVars, pgVars, ocVars>>

\* model_manager.get_available_models() is over
ContentGetAvailableDone(id) ==
    /\ content_task[id].pc = "get_available"
    /\ \E outcome \in {"models", "no models", "raises"} :
         IF outcome = "models"
         THEN /\ content_task' = [content_task EXCEPT ![id].pc = "ensure_model"]
              /\ UNCHANGED generation_store
         ELSE ContentHandled(id, IF outcome = "raises"
                                 THEN "get_available_models raised"
                                 ELSE "No models available for content generation")
    /\ UNCHANGED <<issued, advanced_generation_store, adv_task, cancelled>>
    /\ UNCHANGED <<wfVars, mmVars, pgVars, ocVars>>

\* model_manager.ensure_model_available(model_name) is over
ContentEnsureModelDone(id) ==
    /\ content_task[id].pc = "ensure_model"
    /\ \E outcome \in {"available", "not available", "raises"} :
         IF outcome = "available" /\ id \in DOMAIN generation_store
         THEN /\ generation_store' =
                   [generation_store EXCEPT ![id] =
                      [@ EXCEPT !.model_used = TRUE,
                                !.current_step = "Generating page",
                                !.progress = PageProgress(0, content_task[id].pages)]]
              /\ content_task' = [content_task EXCEPT ![id].pc = "page", ![id].i = 0]
         ELSE ContentHandled(id, CASE outcome = "available" -> "KeyError"
                                   [] outcome = "not available" -> "Model is not available"
                                   [] outcome = "raises" -> "ensure_model_available raised")
    /\ UNCHANGED <<issued, advanced_generation_store, adv_task, cancelled>>
    /\ UNCHANGED <<wfVars, mmVars, pgVars, ocVars>>

\* the COMPLETED marking of process_content_generation (content.py:457-462)
ContentCompleted(record) ==
    [record EXCEPT !.status = "completed",
                   !.completed_at = TRUE,
                   !.progress = 100,
                   !.current_step = "Completed"]

\* generate_page_content returned (it catches its own exceptions): the page
\* is stored; after the last page the record is marked COMPLETED and
\* model_manager.record_model_usage is called inside the try block
ContentPageDone(id) ==
    /\ content_task[id].pc = "page"
    /\ LET task == content_task[id]
           last == task.i + 1 = task.pages
       IN  IF id \notin DOMAIN generation_store
           THEN ContentHandled(id, "KeyError")
           ELSE IF ~last
           THEN /\ generation_store' =
                     [generation_store EXCEPT ![id] =
                        [@ EXCEPT !.pages = @ + 1,
                                  !.progress = PageProgress(task.i + 1, task.pages)]]
                /\ content_task' = [content_task EXCEPT ![id].i = @ + 1]
           ELSE \E usage \in ModelCallOutcomes :
                  IF usage = "returns"
                  THEN /\ generation_store' =
                            [generation_store EXCEPT ![id] =
                               ContentCompleted([@ EXCEPT !.pages = @ + 1])]
                       /\ content_task' = [content_task EXCEPT ![id].pc =
                            IF task.project_id THEN "notify_completed" ELSE "returned"]
                  ELSE /\ generation_store' =
                            [generation_store EXCEPT ![id] =
                               ContentFailed(ContentCompleted([@ EXCEPT !.pages = @ + 1]),
                                             "record_model_usage raised")]
                       /\ content_task' = [content_task EXCEPT ![id].pc = "failed"]
    /\ UNCHANGED <<issued, advanced_generation_store, adv_task, cancelled>>
    /\ UNCHANGED <<wfVars, mmVars, pgVars, ocVars>>

\* notify_backend_generation_completed is over (its exceptions are caught)
ContentNotifyDone(id) ==
    /\ content_task[id].pc = "notify_completed"
    /\ content_task' = [content_task EXCEPT ![id].pc = "returned"]
    /\ UNCHANGED <<issued, advanced_generation_store, generation_store,
                   adv_task, cancelled>>
    /\ UNCHANGED <<wfVars, mmVars, pgVars, ocVars>>

\* one step of generate_content after its await, or of a
\* process_content_generation task
ProcessContentGeneration ==
    \E id \in GenerationIds :
        \/ ContentTaskAdded(id)
        \/ ContentTaskStart(id)
        \/ ContentGetModelDone(id)
        \/ ContentGetAvailableDone(id)
        \/ ContentEnsureModelDone(id)
        \/ ContentPageDone(id)
        \/ ContentNotifyDone(id)

GenInit ==
    /\ issued = 0
    /\ advanced_generation_store = <<>>
    /\ generation_store = <<>>
    /\ adv_task = [id \in GenerationIds |-> NoAdvTask]
    /\ content_task = [id \in GenerationIds |-> NoContentTask]
    /\ cancelled = {}

GenNext ==
    \/ StartAdvancedGeneration
    \/ CancelGeneration
    \/ DeleteGeneration
    \/ ProcessAdvancedGeneration
    \/ GenerateContentRequest
    \/ ContentDeleteGeneration
    \/ ProcessContentGeneration

(***************************************************************************)
(* config/models.py                                                        *)
(***************************************************************************)
\* MODELS_CONFIG: the primary and the fallback model of every category
MODELS_CONFIG ==
    [content_generation |-> [primary |-> "llama3.1:8b", fallback |-> "mistral:7b"],
     code_generation    |-> [primary |-> "codellama:13b", fallback |-> "llama3.1:8b"],
     structured_data    |-> [primary |-> "mistral:7b", fallback |-> "llama3.1:8b"],
     creative_writing   |-> [primary |-> "llama3.1:8b", fallback |-> "mistral:7b"],
     analysis           |-> [primary |-> "llama3.1:8b", fallback |-> "mistral:7b"],
     seo_optimization   |-> [primary |-> "mistral:7b", fallback |-> "llama3.1:8b"]]

\* the categories asked for: those of MODELS_CONFIG and one it does not hold
Categories == DOMAIN MODELS_CONFIG \cup {"unknown_category"}

\* the models MODELS_CONFIG names
Models == {"llama3.1:8b", "mistral:7b", "codellama:13b"}

MODEL_ALIASES ==
    [llama3_8b |-> "llama3.1:8b", llama3 |-> "llama3.1:8b",
     mistral |-> "mistral:7b", codellama |-> "codellama:13b"]

\* the keys of MODEL_ALIASES as written in the source
AliasKey(model_name) ==
    CASE model_name = "llama3:8b" -> "llama3_8b"
      [] model_name \in {"llama3", "mistral", "codellama"} -> model_name
      [] OTHER -> "none"

\* resolve_model_alias: MODEL_ALIASES.get(model_name, model_name)
resolve_model_alias(model_name) ==
    IF AliasKey(model_name) \in DOMAIN MODEL_ALIASES
    THEN MODEL_ALIASES[AliasKey(model_name)]
    ELSE model_name

\* MODEL_PRIORITY of the models above
MODEL_PRIORITY(model_name) ==
    CASE model_name = "llama3.1:8b" -> 100
      [] model_name = "mistral:7b" -> 90
      [] model_name = "codellama:13b" -> 70
      [] OTHER -> 0

\* get_download_order: the models sorted by priority, highest first
RECURSIVE get_download_order(_)
get_download_order(models) ==
    IF models = {} THEN <<>>
    ELSE LET first == CHOOSE m \in models :
                        \A o \in models :
                          MODEL_PRIORITY(resolve_model_alias(m))
                            >= MODEL_PRIORITY(resolve_model_alias(o))
         IN  <<first>> \o get_download_order(models \ {first})

(***************************************************************************)
(* services/model_manager.py : model statuses and their health             *)
(*                                                                         *)
(* last_tested is kept as "never" (None), "recent" (within the last hour)  *)
(* or "old"; performance_score is the number the code computes.            *)
(* recovery_attempts is read with .get(model, 0) only, so a missing key    *)
(* and the value 0 are the same.  Usage statistics are not modelled.       *)
(***************************************************************************)
\* ModelStatus(name=model, status="unknown", ...)
NewModelStatus ==
    [status |-> "unknown", error_count |-> 0, last_tested |-> "never",
     performance_score |-> 0]

\* _calculate_performance_score; slow: the latency penalty is at its cap,
\* inefficient: the tokens-per-second penalty is at its cap
_calculate_performance_score(error_count, slow, inefficient) ==
    Max(0, 100 - (IF slow THEN 30 ELSE 0)
               - (IF error_count > 0 THEN Min(20, error_count * 5) ELSE 0)
               - (IF inefficient THEN 20 ELSE 0))

\* _is_model_healthy
_is_model_healthy(statuses, model_name) ==
    /\ model_name \in DOMAIN statuses
    /\ statuses[model_name].status = "available"
    /\ ~(statuses[model_name].error_count > HealthyErrorLimit)
    /\ statuses[model_name].last_tested # "old"
    /\ ~(statuses[model_name].performance_score < 50)

\* _handle_model_error, on model_statuses
_handle_model_error(statuses, model_name) ==
    IF model_name \in DOMAIN statuses
    THEN [statuses EXCEPT ![model_name] =
            [@ EXCEPT !.status = "failed",
                      !.error_count = @ + 1,
                      !.last_tested = "recent"]]
    ELSE statuses

\* _test_model_health once ollama_client.generate is over;
\* test is [passed, slow, inefficient]
_test_model_health(statuses, model_name, test) ==
    IF test.passed
    THEN IF model_name \in DOMAIN statuses
         THEN [statuses EXCEPT ![model_name] =
                 [status |-> "available",
                  error_count |-> 0,
                  last_tested |-> "recent",
                  performance_score |->
                      _calculate_performance_score(0, test.slow, test.inefficient)]]
         ELSE statuses
    ELSE _handle_model_error(statuses, model_name)

\* the results of a health test that are explored
HealthTests ==
    { [passed |-> TRUE, slow |-> FALSE, inefficient |-> FALSE],
      [passed |-> TRUE, slow |-> TRUE, inefficient |-> TRUE],
      [passed |-> FALSE, slow |-> FALSE, inefficient |-> FALSE] }

\* an error is explored only while the error count is below MaxErrors
ErrorAllowed(statuses, model_name) ==
    IF model_name \in DOMAIN statuses
    THEN statuses[model_name].error_count < MaxErrors
    ELSE TRUE

(***************************************************************************)
(* services/model_manager.py : the download queue                          *)
(***************************************************************************)
\* _process_download_queue that starts a download while the number of
\* running ones is at most the limit
_process_download_queue_inclusive(queue, downloading) ==
    LET RECURSIVE Loop(_, _, _)
        Loop(q, d, started) ==
          IF q # <<>> /\ Cardinality(d) <= max_concurrent_downloads
          THEN Loop(Tail(q), d \cup {Head(q)}, started \cup {Head(q)})
          ELSE [queue |-> q, downloading |-> d, started |-> started]
    IN  Loop(queue, downloading, {})

\* _process_download_queue: the new queue, the new downloading set and the
\* models for which a download task was created
_process_download_queue(queue, downloading) ==
    LET RECURSIVE Loop(_, _, _)
        Loop(q, d, started) ==
          IF q # <<>> /\ Cardinality(d) < max_concurrent_downloads
          THEN Loop(Tail(q), d \cup {Head(q)}, started \cup {Head(q)})
          ELSE [queue |-> q, downloading |-> d, started |-> started]
    IN  Loop(queue, downloading, {})

InQueue(queue, model) == \E i \in 1..Len(queue) : queue[i] = model

\* the queue after the loop of _download_models_batch over the sorted models
RECURSIVE Enqueue(_, _, _)
Enqueue(queue, downloading, models) ==
    IF models = <<>> THEN queue
    ELSE Enqueue(IF ~InQueue(queue, Head(models)) /\ Head(models) \notin downloading
                 THEN Append(queue, Head(models)) ELSE queue,
                 downloading, Tail(models))

\* the queue is processed and the created tasks are recorded
ProcessQueue(queue, downloading, ended) ==
    LET r == _process_download_queue(queue, downloading)
    IN  /\ download_queue' = r.queue
        /\ downloading_models' = r.downloading
        /\ download_task' = [m \in Models |->
                               IF m \in r.started THEN "created"
                               ELSE IF m \in ended THEN "none"
                               ELSE download_task[m]]

\* _download_models_batch(models), for a batch that adds to the queue
DownloadModelsBatch ==
    /\ \E models \in SUBSET Models \ {{}} :
         /\ Enqueue(download_queue, downloading_models, get_download_order(models))
              # download_queue
         /\ ProcessQueue(Enqueue(download_queue, downloading_models,
                                 get_download_order(models)),
                         downloading_models, {})
    /\ UNCHANGED <<model_statuses, recovery_attempts, best_call>>
    /\ UNCHANGED <<wfVars, genVars, pgVars, ocVars>>

\* the finally block of _download_model_with_tracking
DownloadFinally(model_name) ==
    IF download_queue # <<>>
    THEN ProcessQueue(download_queue, downloading_models \ {model_name}, {model_name})
    ELSE /\ downloading_models' = downloading_models \ {model_name}
         /\ download_task' = [download_task EXCEPT ![model_name] = "none"]
         /\ UNCHANGED download_queue

\* _download_model_with_tracking starts: status "downloading", then pull_model
DownloadTaskStart(model_name) ==
    /\ download_task[model_name] = "created"
    /\ model_statuses' =
         IF model_name \in DOMAIN model_statuses
         THEN [model_statuses EXCEPT ![model_name].status = "downloading"]
         ELSE model_statuses
    /\ download_task' = [download_task EXCEPT ![model_name] = "pulling"]
    /\ UNCHANGED <<recovery_attempts, download_queue, downloading_models, best_call>>
    /\ UNCHANGED <<wfVars, genVars, pgVars, ocVars>>

\* ollama_client.pull_model is over: on success the model is tested,
\* otherwise (False or an exception) the error is recorded and the task ends
DownloadPullDone(model_name) ==
    /\ download_task[model_name] = "pulling"
    /\ \E success \in BOOLEAN :
         IF success
         THEN /\ download_task' = [download_task EXCEPT ![model_name] = "testing"]
              /\ UNCHANGED <<model_statuses, download_queue, downloading_models>>
         ELSE /\ ErrorAllowed(model_statuses, model_name)
              /\ model_statuses' = _handle_model_error(model_statuses, model_name)
              /\ DownloadFinally(model_name)
    /\ UNCHANGED <<recovery_attempts, best_call>>
    /\ UNCHANGED <<wfVars, genVars, pgVars, ocVars>>

\* the health test of the downloaded model is over and the task ends
DownloadTestDone(model_name) ==
    /\ download_task[model_name] = "testing"
    /\ \E test \in HealthTests :
         /\ test.passed \/ ErrorAllowed(model_statuses, model_name)
         /\ model_statuses' = _test_model_health(model_statuses, model_name, test)
    /\ DownloadFinally(model_name)
    /\ UNCHANGED <<recovery_attempts, best_call>>
    /\ UNCHANGED <<wfVars, genVars, pgVars, ocVars>>

DownloadModelWithTracking ==
    \E model_name \in Models :
        \/ DownloadTaskStart(model_name)
        \/ DownloadPullDone(model_name)
        \/ DownloadTestDone(model_name)

\* no get_best_model call is in progress
NoCall(category) ==
    [pc |-> "idle", category |-> category, candidate |-> 0,
     healthy |-> <<FALSE, FALSE>>, recovered |-> <<"none", "none">>,
     result |-> "none"]

\* ModelManager.__init__ and the statuses initialize_models creates
DownloadInit ==
    /\ model_statuses = [m \in Models |-> NewModelStatus]
    /\ recovery_attempts = [m \in Models |-> 0]
    /\ download_queue = <<>>
    /\ downloading_models = {}
    /\ download_task = [m \in Models |-> "none"]
    /\ best_call = NoCall("content_generation")

DownloadNext ==
    \/ DownloadModelsBatch
    \/ DownloadModelWithTracking

(***************************************************************************)
(* services/model_manager.py : get_best_model and model recovery           *)
(*                                                                         *)
(* best_call is the call of get_best_model in progress: the category, the  *)
(* health of the two candidates as the first loop found it, the candidate  *)
(* under recovery (1 or 2), the outcome of each recovery attempt and the   *)
(* value returned.  get_best_model reads the statuses of its two           *)
(* candidates only, so a behaviour tracks the candidates of one category.  *)
(***************************************************************************)
\* the candidates with the fallback tried first
candidates_fallback_first(category) ==
    LET config == IF category \in DOMAIN MODELS_CONFIG
                  THEN MODELS_CONFIG[category]
                  ELSE MODELS_CONFIG["content_generation"]
    IN  <<resolve_model_alias(config["fallback"]),
          resolve_model_alias(config["primary"])>>

\* config = models_config.get(category, models_config["content_generation"])
\* candidates = [config["primary"], config["fallback"]], alias-resolved
candidates(category) ==
    LET config == IF category \in DOMAIN MODELS_CONFIG
                  THEN MODELS_CONFIG[category]
                  ELSE MODELS_CONFIG["content_generation"]
    IN  <<resolve_model_alias(config["primary"]),
          resolve_model_alias(config["fallback"])>>

\* the last resort of get_best_model: the resolved primary model
primary_model(category) ==
    resolve_model_alias((IF category \in DOMAIN MODELS_CONFIG
                         THEN MODELS_CONFIG[category]
                         ELSE MODELS_CONFIG["content_generation"])["primary"])

\* the call returns resolved_model
Returned(call, resolved_model) ==
    [call EXCEPT !.pc = "done", !.result = resolved_model]

\* the second loop of get_best_model from candidate i on: a candidate whose
\* recovery attempts are used up is skipped at once, the first other one is
\* awaited, and past the last candidate the primary model is returned
RECURSIVE RecoverFrom(_, _, _)
RecoverFrom(call, attempts, i) ==
    IF i > Len(candidates(call.category))
    THEN [call |-> Returned(call, primary_model(call.category)),
          attempts |-> attempts]
    ELSE LET model_name == candidates(call.category)[i]
         IN  IF attempts[model_name] >= max_recovery_attempts
             THEN RecoverFrom([call EXCEPT !.recovered[i] = "no"], attempts, i + 1)
             ELSE [call |-> [call EXCEPT !.pc = "testing", !.candidate = i],
                   attempts |-> [attempts EXCEPT ![model_name] = @ + 1]]

\* _attempt_model_recovery of the current candidate returned False
RecoveryFailed(call, attempts) ==
    RecoverFrom([call EXCEPT !.recovered[call.candidate] = "no"],
                attempts, call.candidate + 1)

\* _attempt_model_recovery of the current candidate returned True
RecoverySucceeded(call, attempts) ==
    [call |-> Returned([call EXCEPT !.recovered[call.candidate] = "yes"],
                       candidates(call.category)[call.candidate]),
     attempts |-> [attempts EXCEPT ![candidates(call.category)[call.candidate]] = 0]]

\* get_best_model(category) up to its first suspension: the first loop
\* returns the first healthy candidate, otherwise recovery starts
GetBestModel ==
    /\ best_call.pc = "idle"
    /\ LET call == [best_call EXCEPT
                      !.healthy = [i \in 1..2 |->
                          _is_model_healthy(model_statuses,
                                            candidates(best_call.category)[i])]]
           first_healthy == CHOOSE i \in 1..2 :
                              /\ call.healthy[i]
                              /\ \A j \in 1..(i - 1) : ~call.healthy[j]
       IN  IF \E i \in 1..2 : call.healthy[i]
           THEN /\ best_call' = Returned(call, candidates(call.category)[first_healthy])
                /\ UNCHANGED recovery_attempts
           ELSE /\ best_call' = RecoverFrom(call, recovery_attempts, 1).call
                /\ recovery_attempts' = RecoverFrom(call, recovery_attempts, 1).attempts
    /\ UNCHANGED <<model_statuses, download_queue, downloading_models, download_task>>
    /\ UNCHANGED <<wfVars, genVars, pgVars, ocVars>>

\* a health test inside _attempt_model_recovery is over: a healthy model
\* ends the recovery, otherwise list_models is awaited after the first test
\* and the recovery has failed after the second
RecoveryTested(next_pc) ==
    \E test \in HealthTests :
      LET model_name == candidates(best_call.category)[best_call.candidate]
          statuses == _test_model_health(model_statuses, model_name, test)
      IN  /\ test.passed \/ ErrorAllowed(model_statuses, model_name)
          /\ model_statuses' = statuses
          /\ IF _is_model_healthy(statuses, model_name)
             THEN /\ best_call' = RecoverySucceeded(best_call, recovery_attempts).call
                  /\ recovery_attempts' =
                         RecoverySucceeded(best_call, recovery_attempts).attempts
             ELSE IF next_pc = "listing"
             THEN /\ best_call' = [best_call EXCEPT !.pc = "listing"]
                  /\ UNCHANGED recovery_attempts
             ELSE /\ best_call' = RecoveryFailed(best_call, recovery_attempts).call
                  /\ recovery_attempts' =
                         RecoveryFailed(best_call, recovery_attempts).attempts

RecoveryTestDone ==
    /\ best_call.pc = "testing"
    /\ RecoveryTested("listing")
    /\ UNCHANGED <<download_queue, downloading_models, download_task>>
    /\ UNCHANGED <<wfVars, genVars, pgVars, ocVars>>

\* ollama_client.list_models is over: the model is re-downloaded when it is
\* not listed; when it is listed, or the call raised, the recovery has failed
RecoveryListDone ==
    /\ best_call.pc = "listing"
    /\ \E listing \in {"listed", "not_listed", "raises"} :
         IF listing = "not_listed"
         THEN /\ best_call' = [best_call EXCEPT !.pc = "pulling"]
              /\ UNCHANGED recovery_attempts
         ELSE /\ best_call' = RecoveryFailed(best_call, recovery_attempts).call
              /\ recovery_attempts' = RecoveryFailed(best_call, recovery_attempts).attempts
    /\ UNCHANGED <<model_statuses, download_queue, downloading_models, download_task>>
    /\ UNCHANGED <<wfVars, genVars, pgVars, ocVars>>

\* ollama_client.pull_model is over: the model is tested again on success
RecoveryPullDone ==
    /\ best_call.pc = "pulling"
    /\ \E success \in BOOLEAN :
         IF success
         THEN /\ best_call' = [best_call EXCEPT !.pc = "retesting"]
              /\ UNCHANGED recovery_attempts
         ELSE /\ best_call' = RecoveryFailed(best_call, recovery_attempts).call
              /\ recovery_attempts' = RecoveryFailed(best_call, recovery_attempts).attempts
    /\ UNCHANGED <<model_statuses, download_queue, downloading_models, download_task>>
    /\ UNCHANGED <<wfVars, genVars, pgVars, ocVars>>

RecoveryRetestDone ==
    /\ best_call.pc = "retesting"
    /\ RecoveryTested("end")
    /\ UNCHANGED <<download_queue, downloading_models, download_task>>
    /\ UNCHANGED <<wfVars, genVars, pgVars, ocVars>>

\* the caller has the result and the next call may start; nothing else
\* runs between the return statement and the caller
BestModelReturn ==
    /\ best_call.pc = "done"
    /\ best_call' = NoCall(best_call.category)
    /\ UNCHANGED <<model_statuses, recovery_attempts, download_queue,
                   downloading_models, download_task>>
    /\ UNCHANGED <<wfVars, genVars, pgVars, ocVars>>

\* a health test started by _test_all_models or _background_monitoring ends
HealthTestDone ==
    /\ best_call.pc # "done"
    /\ \E model_name \in DOMAIN model_statuses : \E test \in HealthTests :
         /\ test.passed \/ ErrorAllowed(model_statuses, model_name)
         /\ model_statuses' = _test_model_health(model_statuses, model_name, test)
    /\ UNCHANGED <<recovery_attempts, download_queue, downloading_models,
                   download_task, best_call>>
    /\ UNCHANGED <<wfVars, genVars, pgVars, ocVars>>

\* more than an hour passes since the last test of an available model (the
\* age of the last test is read for available models only)
HourPasses ==
    /\ best_call.pc # "done"
    /\ \E model_name \in DOMAIN model_statuses :
         /\ model_statuses[model_name].status = "available"
         /\ model_statuses[model_name].last_tested = "recent"
         /\ model_statuses' = [model_statuses EXCEPT ![model_name].last_tested = "old"]
    /\ UNCHANGED <<recovery_attempts, download_queue, downloading_models,
                   download_task, best_call>>
    /\ UNCHANGED <<wfVars, genVars, pgVars, ocVars>>

\* remove_model(model_name) once delete_model has succeeded
remove_model ==
    /\ best_call.pc # "done"
    /\ \E model_name \in DOMAIN model_statuses :
         /\ model_statuses' = [m \in DOMAIN model_statuses \ {model_name}
                                 |-> model_statuses[m]]
         /\ recovery_attempts' = [recovery_attempts EXCEPT ![model_name] = 0]
    /\ UNCHANGED <<download_queue, downloading_models, download_task, best_call>>
    /\ UNCHANGED <<wfVars, genVars, pgVars, ocVars>>

\* one category is asked for; its candidates are tracked and untested
BestModelInit ==
    /\ \E category \in Categories :
         /\ best_call = NoCall(category)
         /\ model_statuses =
              [m \in {candidates(category)[i] : i \in 1..2} |-> NewModelStatus]
    /\ recovery_attempts = [m \in Models |-> 0]
    /\ download_queue = <<>>
    /\ downloading_models = {}
    /\ download_task = [m \in Models |-> "none"]

BestModelNext ==
    \/ GetBestModel
    \/ RecoveryTestDone
    \/ RecoveryListDone
    \/ RecoveryPullDone
    \/ RecoveryRetestDone
    \/ BestModelReturn
    \/ HealthTestDone
    \/ HourPasses
    \/ remove_model

(***************************************************************************)
(* workflows/base.py : the methods of WorkflowState that write progress,   *)
(* called with any argument.  progress is written by update_progress and  *)
(* reset_for_retry only.                                                   *)
(***************************************************************************)
\* the progress values a caller may pass to update_progress
RequestedProgress == (0 - MaxOvershoot)..(100 + MaxOvershoot)

\* the values of the status parameter; "none" is the default None
RequestedStatus == WorkflowStatus \cup {"none"}

\* no method was called on the state object yet
NoProgressCall == [op |-> "none", progress |-> 0, status |-> "none"]

ProgressInit == progress_call = NoProgressCall

\* state.update_progress(step, progress, status)
UpdateProgressCall ==
    /\ \E progress \in RequestedProgress, status \in RequestedStatus :
         /\ state' = update_progress(state, "step", progress, status)
         /\ progress_call' = [op |-> "update_progress", progress |-> progress,
                              status |-> status]
    /\ UNCHANGED <<pc, node, executed, answers, invocations, slept,
                   progress_log, skip_on_errors, agent_logger>>
    /\ UNCHANGED <<genVars, mmVars, ocVars>>

\* state.reset_for_retry()
ResetForRetryCall ==
    /\ state' = reset_for_retry(state)
    /\ progress_call' = [op |-> "reset_for_retry", progress |-> 0,
                         status |-> "none"]
    /\ UNCHANGED <<pc, node, executed, answers, invocations, slept,
                   progress_log, skip_on_errors, agent_logger>>
    /\ UNCHANGED <<genVars, mmVars, ocVars>>

ProgressNext ==
    \/ UpdateProgressCall
    \/ ResetForRetryCall

(***************************************************************************)
(* services/ollama_client.py : OllamaClient.health_check                   *)
(*                                                                         *)
(* Times are whole seconds.  A call is made of the cache test and, when    *)
(* the cache is not used, of the request to Ollama, which takes time.      *)
(* health_call keeps what the call in progress, or the last one, did.      *)
(***************************************************************************)
\* no health_check call was made yet
NoHealthCall ==
    [pc |-> "idle", from_cache |-> FALSE, had_previous |-> FALSE,
     elapsed |-> 0, result |-> FALSE]

\* OllamaClient.__init__
HealthInit ==
    /\ clock = 0
    /\ _health_status = FALSE
    /\ _last_health_check = <<>>
    /\ health_call = NoHealthCall

\* (datetime.now() - self._last_health_check).seconds: a timedelta keeps
\* whole days apart, and .seconds is what is left of the difference
timedelta_seconds(difference) == difference % SecondsPerDay

\* the waits between two observations of the clock: just under half the
\* cache time, half the cache time, and one day
TimeSteps == {CacheSeconds \div 2 - 1, CacheSeconds \div 2, SecondsPerDay}

\* time passes, also while a request is in flight
TimePasses ==
    /\ \E d \in TimeSteps :
         /\ IF d = SecondsPerDay
            THEN clock \div SecondsPerDay < MaxDays
            ELSE (clock % SecondsPerDay) + d <= MaxSecondsOfDay
         /\ clock' = clock + d
    /\ UNCHANGED <<_health_status, _last_health_check, health_call>>
    /\ UNCHANGED <<wfVars, genVars, mmVars, pgVars>>

\* health_check is called: the cached status is returned, or the request
\* to Ollama is sent; elapsed is the time since the previous check
HealthCheckCall ==
    /\ health_call.pc \in {"idle", "returned"}
    /\ LET had_previous == _last_health_check # <<>>
           elapsed == IF had_previous THEN clock - _last_health_check[1] ELSE 0
       IN  IF had_previous /\ timedelta_seconds(elapsed) < CacheSeconds
           THEN health_call' = [pc |-> "returned", from_cache |-> TRUE,
                                had_previous |-> had_previous,
                                elapsed |-> elapsed,
                                result |-> _health_status]
           ELSE health_call' = [pc |-> "requesting", from_cache |-> FALSE,
                                had_previous |-> had_previous,
                                elapsed |-> elapsed,
                                result |-> FALSE]
    /\ UNCHANGED <<clock, _health_status, _last_health_check>>
    /\ UNCHANGED <<wfVars, genVars, mmVars, pgVars>>

\* _make_request("/") is over: it returns the decoded body, or None for
\* any failure (it catches every exception, so the except branch of
\* health_check is not entered)
HealthCheckResponse ==
    /\ health_call.pc = "requesting"
    /\ \E response \in {"body", "None"} :
         /\ _health_status' = (response # "None")
         /\ health_call' = [health_call EXCEPT !.pc = "returned",
                                               !.result = (response # "None")]
    /\ _last_health_check' = <<clock>>
    /\ UNCHANGED clock
    /\ UNCHANGED <<wfVars, genVars, mmVars, pgVars>>

HealthNext ==
    \/ TimePasses
    \/ HealthCheckCall
    \/ HealthCheckResponse

(***************************************************************************)
(* Specifications                                                          *)
(***************************************************************************)
MMInit == DownloadInit

Init == WFInit /\ GenInit /\ MMInit /\ ProgressInit /\ HealthInit

Next == WFNext

Spec == Init /\ [][Next]_vars

\* every graph invocation and every backoff sleep terminates
LiveSpec == Spec /\ WF_vars(Next)

\* no workflow runs while the job stores are exercised
WFIdle ==
    /\ state = NewWorkflowState(CHOOSE w \in WizardPayloads : ~w.malformed /\ w.blog,
                                DefaultMaxRetries)
    /\ pc = "start"
    /\ node = "none"
    /\ executed = <<>>
    /\ answers = <<>>
    /\ invocations = 0
    /\ slept = <<>>
    /\ progress_log = <<0>>
    /\ skip_on_errors = FALSE
    /\ agent_logger = TRUE

\* the job stores are empty, no workflow runs and no model is downloaded
GenSpecInit == WFIdle /\ GenInit /\ MMInit /\ ProgressInit /\ HealthInit

GenSpec == GenSpecInit /\ [][GenNext]_vars

\* no generation is requested while the model manager is exercised
DownloadSpecInit ==
    WFIdle /\ GenInit /\ DownloadInit /\ ProgressInit /\ HealthInit

DownloadSpec == DownloadSpecInit /\ [][DownloadNext]_vars

\* get_best_model is called while models are tested, age and are removed
BestModelSpecInit ==
    WFIdle /\ GenInit /\ BestModelInit /\ ProgressInit /\ HealthInit

BestModelSpec == BestModelSpecInit /\ [][BestModelNext]_vars

\* the methods of one WorkflowState object are called in any order
ProgressSpecInit == WFIdle /\ GenInit /\ MMInit /\ ProgressInit /\ HealthInit

ProgressSpec == ProgressSpecInit /\ [][ProgressNext]_vars

\* health_check is called again and again while time passes
HealthSpecInit == WFIdle /\ GenInit /\ MMInit /\ ProgressInit /\ HealthInit

HealthSpec == HealthSpecInit /\ [][HealthNext]_vars

\* a run of the default workflow on a complete payload, with up to MaxWaits
\* retries allowed
RetrySpecInit ==
    /\ \E m \in 0..MaxWaits :
         state = NewWorkflowState(CHOOSE w \in WizardPayloads : ~w.malformed /\ w.blog, m)
    /\ pc = "start"
    /\ node = "none"
    /\ executed = <<>>
    /\ answers = <<>>
    /\ invocations = 0
    /\ slept = <<>>
    /\ progress_log = <<0>>
    /\ skip_on_errors = FALSE
    /\ agent_logger = TRUE
    /\ GenInit /\ MMInit /\ ProgressInit /\ HealthInit

RetrySpec == RetrySpecInit /\ [][Next]_vars

(***************************************************************************)
(* Properties of the workflow (checked under Spec, C4 under LiveSpec)      *)
(***************************************************************************)
\* the stages among the executed nodes: all of them but a final handle_error
StagesRun ==
    IF executed # <<>> /\ Last(executed) = "handle_error"
    THEN Len(executed) - 1 ELSE Len(executed)

Occurrences(seq, x) == Cardinality({i \in 1..Len(seq) : seq[i] = x})

\* C1: within one graph execution the stages run in the fixed order
\* analyze_requirements, generate_content, optimize_seo, plan_structure,
\* finalize_output; a stage runs only after the edge function of the stage
\* before it answered "continue"; no node runs twice; and an execution that
\* reached END ran exactly one of finalize_output and handle_error, as its
\* last node.
C1_FixedStageOrder ==
    /\ StagesRun <= Len(Stages)
    /\ \A i \in 1..StagesRun : i <= Len(Stages) => executed[i] = Stages[i]
    /\ \A i \in 2..StagesRun : answers[i - 1] = "continue"
    /\ \A n \in GraphNodes : Occurrences(executed, n) <= 1
    /\ (pc = "graph" /\ node = "END") =>
          /\ executed # <<>>
          /\ Last(executed) \in {"finalize_output", "handle_error"}
          /\ Occurrences(executed, "finalize_output")
               + Occurrences(executed, "handle_error") = 1

\* a graph execution went through all five stages and reached END
C1_Witness ==
    pc = "graph" /\ node = "END" /\ executed = Stages

\* the errors list of s holds the message e
HasError(s, e) == \E i \in 1..Len(s.errors) : s.errors[i] = e

\* C2: one run invokes the graph at most max_retries + 1 times, retry_count
\* never exceeds max_retries, and when the last allowed attempt raised, the
\* run has returned a FAILED state that holds a "Max retries reached" error.
C2_RetryBound ==
    /\ invocations <= state.max_retries + 1
    /\ state.retry_count <= state.max_retries
    /\ (pc = "done" /\ node # "END" /\ invocations = state.max_retries + 1) =>
          /\ HasError(state, "Max retries reached")
          /\ state.status = "failed"
    /\ HasError(state, "Max retries reached") =>
          invocations = state.max_retries + 1

\* the fourth attempt of a run with the default max_retries raised
C2_Witness ==
    /\ pc = "done"
    /\ state.max_retries = DefaultMaxRetries
    /\ invocations = DefaultMaxRetries + 1
    /\ HasError(state, "Max retries reached")

\* C3: the state returned by run is COMPLETED exactly when its errors list
\* is empty, and a COMPLETED state has progress 100 and completed_at set.
C3_CompletedIffNoErrors ==
    pc = "done" =>
        /\ (state.status = "completed") <=> (state.errors = <<>>)
        /\ state.status = "completed" =>
               state.progress = 100 /\ state.completed_at

\* run returned a COMPLETED state
C3_Witness ==
    pc = "done" /\ state.status = "completed" /\ executed = Stages

\* C4: every run eventually returns, and the state it returns is COMPLETED
\* or FAILED.
C4_RunReturns ==
    <>[](pc = "done" /\ state.status \in {"completed", "failed"})

\* a run returned after it had retried
C4_Witness ==
    pc = "done" /\ state.retry_count > 0 /\ state.status \in {"completed", "failed"}

\* C13: with skip_on_errors false, once state.errors is non-empty after a
\* node of an attempt, the only node that still runs in that attempt is
\* handle_error: no further stage and not finalize_output has run, and when
\* the attempt reached END, handle_error ran last and the status is FAILED.
C13_ErrorStopsAttempt ==
    (pc = "graph" /\ ~skip_on_errors /\ executed # <<>> /\ state.errors # <<>>) =>
        /\ node \in {"handle_error", "END"}
        /\ Occurrences(executed, "finalize_output") = 0
        /\ node = "handle_error" => Occurrences(executed, "handle_error") = 0
        /\ node = "END" =>
              /\ Last(executed) = "handle_error"
              /\ state.status = "failed"

\* without skip_on_errors, optimize_seo left an error and handle_error ran
C13_Witness ==
    /\ pc = "graph"
    /\ ~skip_on_errors
    /\ node = "END"
    /\ executed = <<"analyze_requirements", "generate_content",
                    "optimize_seo", "handle_error">>
    /\ state.errors # <<>>
    /\ state.status = "failed"

\* C14: after optimize_seo the workflow continues to plan_structure, also
\* when the SEO optimization failed.
C14_SeoFailureContinues ==
    (pc = "graph" /\ executed # <<>> /\ Last(executed) = "optimize_seo") =>
        node = "plan_structure"

\* C15: whatever skip_on_errors is, generate_content is entered only with a
\* content_strategy in state.metadata and optimize_seo only with generated
\* content; when the stage before left none, an error is in state.errors
\* and handle_error is the next node.
C15_StageNeedsInput ==
    pc = "graph" =>
        /\ (node = "generate_content" \/ Occurrences(executed, "generate_content") = 1)
              => state.metadata.content_strategy
        /\ (node = "optimize_seo" \/ Occurrences(executed, "optimize_seo") = 1)
              => state.generated_content # {}
        /\ (executed # <<>> /\ Last(executed) = "analyze_requirements"
              /\ ~state.metadata.content_strategy)
              => (node = "handle_error" /\ state.errors # <<>>)
        /\ (executed # <<>> /\ Last(executed) = "generate_content"
              /\ state.generated_content = {})
              => (node = "handle_error" /\ state.errors # <<>>)

\* with skip_on_errors, generate_content produced nothing: the edge recorded
\* the error and handle_error is next
C15_Witness ==
    /\ pc = "graph"
    /\ skip_on_errors
    /\ executed = <<"analyze_requirements", "generate_content">>
    /\ state.generated_content = {}
    /\ HasError(state, "Content generation failed to produce content")
    /\ node = "handle_error"

\* C16: after finalize_output, metadata holds final_output and the status is
\* COMPLETED when content, structure and navigation are all non-empty;
\* otherwise a "Missing required sections" error is recorded, the status is
\* FAILED and no final_output is stored.
C16_FinalOutputOnlyWhenComplete ==
    /\ state.metadata.final_output =>
          /\ state.generated_content # {}
          /\ state.metadata.site_structure
          /\ state.metadata.navigation
    /\ (pc = "graph" /\ executed # <<>> /\ Last(executed) = "finalize_output") =>
          IF /\ state.generated_content # {}
             /\ state.metadata.site_structure
             /\ state.metadata.navigation
          THEN state.metadata.final_output /\ state.status = "completed"
          ELSE /\ HasError(state, "Missing required sections")
               /\ state.status = "failed"
               /\ ~state.metadata.final_output

\* finalize_output ran without a site structure and refused the output
C16_Witness ==
    /\ pc = "graph"
    /\ executed = Stages
    /\ ~state.metadata.site_structure
    /\ HasError(state, "Missing required sections")
    /\ state.status = "failed"
    /\ ~state.metadata.final_output

\* C17: within one attempt state.progress never decreases from one progress
\* update to the next (progress_log holds the progress before the last
\* step of the run and the values that step assigned, in order).
C17_ProgressNeverDecreases ==
    \A i \in 1..(Len(progress_log) - 1) : progress_log[i] <= progress_log[i + 1]

\* C18: the reset_for_retry call of a retry clears errors, sets status
\* PENDING, progress 0 and an empty current_step, and leaves retry_count,
\* warnings, metadata, generated_content and agent_results as they were.
C18_ResetKeepsResults ==
    [][(pc = "backoff" /\ pc' = "invoke") =>
          /\ state'.errors = <<>>
          /\ state'.status = "pending"
          /\ state'.progress = 0
          /\ state'.current_step = ""
          /\ state'.retry_count = state.retry_count
          /\ state'.warnings = state.warnings
          /\ state'.metadata = state.metadata
          /\ state'.generated_content = state.generated_content
          /\ state'.agent_results = state.agent_results]_vars

\* a retry is about to start with the content and the strategy of the
\* failed attempt still in the state
C18_Witness ==
    /\ pc = "invoke"
    /\ state.retry_count > 0
    /\ state.errors = <<>>
    /\ state.status = "pending"
    /\ state.progress = 0
    /\ state.generated_content # {}
    /\ state.metadata.content_strategy
    /\ state.agent_results["ContentGenerator"] = "success"

\* C19: before the k-th retry the run waits min(2^k, 30) seconds, every
\* wait is longer than the one before it, and no wait exceeds 30 seconds.
C19_WaitGrowsWithEachRetry ==
    /\ Len(slept) = state.retry_count
    /\ \A k \in 1..Len(slept) :
          /\ slept[k] = (IF Pow2(k) < 30 THEN Pow2(k) ELSE 30)
          /\ slept[k] <= 30
          /\ k > 1 => slept[k] > slept[k - 1]

\* C19 (amended): before the k-th retry the run waits min(2^k, 30) seconds:
\* 2, 4, 8 and 16 seconds before the first four retries and 30 seconds
\* before every later one; a wait is never shorter than the one before it,
\* is longer while the one before it is below 30, and never exceeds 30.
C19_WaitDoublesUpToCap ==
    /\ Len(slept) = state.retry_count
    /\ Len(slept) <= state.max_retries
    /\ \A k \in 1..Len(slept) :
          /\ slept[k] = (IF k < 5 THEN Pow2(k) ELSE 30)
          /\ slept[k] <= 30
          /\ k > 1 => slept[k] >= slept[k - 1]
          /\ (k > 1 /\ slept[k - 1] < 30) => slept[k] > slept[k - 1]

\* the run waited 30 seconds before its fifth and before its sixth retry
C19_Witness ==
    /\ Len(slept) >= 6
    /\ slept[5] = 30
    /\ slept[6] = 30
    /\ pc = "backoff"

\* the value min(100, max(0, requested)) written without Min and Max
Clamped(requested) ==
    IF requested < 0 THEN 0 ELSE IF requested > 100 THEN 100 ELSE requested

\* C11: WorkflowState.progress is within 0..100 in every reachable state:
\* after update_progress it is the requested value clamped into [0, 100],
\* or 100 when the status passed is COMPLETED, and after reset_for_retry
\* it is 0.
C11_ProgressInRange ==
    /\ state.progress \in 0..100
    /\ progress_call.op = "update_progress" =>
         state.progress = IF progress_call.status = "completed" THEN 100
                          ELSE Clamped(progress_call.progress)
    /\ progress_call.op = "reset_for_retry" => state.progress = 0

\* update_progress was asked for more than 100 without a status and the
\* state holds 100
C11_Witness ==
    /\ progress_call.op = "update_progress"
    /\ progress_call.progress > 100
    /\ progress_call.status = "none"
    /\ state.progress = 100

(***************************************************************************)
(* Properties of the job stores, checked under GenSpec                     *)
(***************************************************************************)
\* the process_advanced_generation task of id is over
AdvTaskOver(id) == adv_task[id].pc \in {"returned", "failed"}

C6_FailedTaskMarksRecord ==
    /\ \A id \in DOMAIN advanced_generation_store :
         adv_task[id].pc = "failed" =>
            /\ advanced_generation_store[id].status = "failed"
            /\ advanced_generation_store[id].error # "None"
            /\ advanced_generation_store[id].completed_at
    /\ \A id \in DOMAIN generation_store :
         content_task[id].pc = "failed" =>
            /\ generation_store[id].status = "failed"
            /\ generation_store[id].error # "None"
            /\ generation_store[id].completed_at

\* a task of each kind has raised, one after the record was COMPLETED, and
\* both records are still in their stores
C6_Witness ==
    /\ \E id \in DOMAIN advanced_generation_store :
         /\ adv_task[id].pc = "failed"
         /\ advanced_generation_store[id].error = "ensure_model_available raised"
    /\ \E id \in DOMAIN generation_store :
         /\ content_task[id].pc = "failed"
         /\ generation_store[id].error = "record_model_usage raised"
         /\ generation_store[id].progress = 100

\* every record is stored under its own generation_id, which was issued
RecordsUnderOwnId ==
    /\ DOMAIN advanced_generation_store \subseteq 1..issued
    /\ DOMAIN generation_store \subseteq 1..issued
    /\ \A k \in DOMAIN advanced_generation_store :
         advanced_generation_store[k].generation_id = k
    /\ \A k \in DOMAIN generation_store :
         generation_store[k].generation_id = k

\* what one step may do to a store: add one record under an id that was
\* never issued before, remove exactly the record a delete endpoint was
\* asked to remove, and never put a new record in the place of an old one
StoreStep(store, store_after, fresh_record(_), is_delete(_)) ==
    /\ \A k \in DOMAIN store_after \ DOMAIN store :
         /\ k > issued
         /\ k \notin DOMAIN advanced_generation_store \cup DOMAIN generation_store
         /\ store_after[k].generation_id = k
         /\ DOMAIN store_after = DOMAIN store \cup {k}
    /\ \A k \in DOMAIN store \ DOMAIN store_after :
         /\ is_delete(k)
         /\ DOMAIN store_after = DOMAIN store \ {k}
    /\ \A k \in DOMAIN store \cap DOMAIN store_after :
         /\ store_after[k].generation_id = store[k].generation_id
         /\ store_after[k] = fresh_record(k) => store[k] = fresh_record(k)

\* C7: both job stores hold one record per generation id: a start request
\* adds one record under a fresh id equal to its generation_id field, no
\* step overwrites or duplicates an existing record, and a record
\* disappears only in a step of the delete endpoint of its store
C7_OneRecordPerId ==
    /\ []RecordsUnderOwnId
    /\ [][ /\ StoreStep(advanced_generation_store, advanced_generation_store',
                        NewAdvancedRecord, delete_generation)
           /\ StoreStep(generation_store, generation_store',
                        NewContentRecord, content_delete_generation) ]_vars

\* a record its task has completed is stored under its id, and the record
\* of another generation was deleted while its task was running
C7_Witness ==
    /\ \E k \in DOMAIN advanced_generation_store :
         /\ advanced_generation_store[k].status = "completed"
         /\ advanced_generation_store[k].generation_id = k
    /\ \E k \in GenerationIds :
         /\ content_task[k].pc = "page"
         /\ k \notin DOMAIN generation_store

C9_DownloadLimit ==
    Cardinality(downloading_models) <= max_concurrent_downloads

\* the limit is reached with a model waiting in the queue, after a download
\* task has ended
C9_Witness ==
    /\ Cardinality(downloading_models) = max_concurrent_downloads
    /\ download_queue # <<>>
    /\ \E m \in DOMAIN model_statuses :
         model_statuses[m].status \in {"available", "failed"}

\* C10: get_best_model returns the resolved primary when it is healthy,
\* otherwise the resolved fallback when that is healthy, otherwise the first
\* of primary and fallback whose recovery succeeds, otherwise the primary;
\* never a model outside the two, and an unknown category is served from
\* the content_generation configuration
C10_BestModelSelection ==
    best_call.pc = "done" =>
        LET config == IF best_call.category \in DOMAIN MODELS_CONFIG
                      THEN MODELS_CONFIG[best_call.category]
                      ELSE MODELS_CONFIG.content_generation
            primary == resolve_model_alias(config.primary)
            fallback == resolve_model_alias(config.fallback)
            healthy == best_call.healthy
            recovered == best_call.recovered
        IN  /\ best_call.result \in {primary, fallback}
            /\ best_call.result =
                 CASE healthy[1] -> primary
                   [] ~healthy[1] /\ healthy[2] -> fallback
                   [] ~healthy[1] /\ ~healthy[2] /\ recovered[1] = "yes" -> primary
                   [] ~healthy[1] /\ ~healthy[2] /\ recovered[1] # "yes"
                        /\ recovered[2] = "yes" -> fallback
                   [] OTHER -> primary
            /\ (healthy[1] \/ healthy[2] \/ recovered[1] = "yes" \/ recovered[2] = "yes")
                 => _is_model_healthy(model_statuses, best_call.result)
            /\ (healthy[1] \/ healthy[2]) => recovered = <<"none", "none">>
            /\ best_call.category = "unknown_category"
                 => best_call.result \in {"llama3.1:8b", "mistral:7b"}

\* the call returned the fallback after the recovery of the primary failed
\* and the recovery of the fallback succeeded
C10_Witness ==
    /\ best_call.pc = "done"
    /\ best_call.healthy = <<FALSE, FALSE>>
    /\ best_call.recovered = <<"no", "yes">>
    /\ best_call.result = candidates(best_call.category)[2]
    /\ best_call.category = "code_generation"

\* C12: health_check answers from the cache, without a request, only when
\* the previous check was made less than 30 seconds earlier; in every
\* other case it sends the request and stores the new status and the time
\* of the check.
C12_CachedOnlyWithinCacheTime ==
    /\ health_call.pc # "idle" =>
         (health_call.from_cache <=>
            (health_call.had_previous /\ health_call.elapsed < CacheSeconds))
    /\ (health_call.pc = "returned" /\ ~health_call.from_cache) =>
         /\ _health_status = health_call.result
         /\ _last_health_check # <<>>

=============================================================================
